---- MODULE Spec2Model ----
(***************************************************************************)
(* Tax expense categorizer: the per-row classification pipeline and the    *)
(* batch runner of llama_expense.py ("main") and llama_expense-dev.py      *)
(* ("dev").                                                                *)
(*                                                                         *)
(* Python values are encoded as strings so that values of different Python *)
(* types can sit in one column: a str is itself, the bools are "True" and  *)
(* "False", a float NaN is "nan".  Text handled by the JSON extractor is a *)
(* sequence of one-character strings, so that strip, startswith and the    *)
(* slices [7:-3] and [3:-3] count characters as Python does.               *)
(***************************************************************************)
EXTENDS Integers, Sequences, FiniteSets, TLC

\* ------------------------------------------------------------- bounds
\* Rows of the input table.
MaxRows == 2
\* Whitespace characters put before and after a fenced response.
MaxPad == 1
\* Members of a JSON object text.
MaxMembers == 2

\* ---------------------------------------------------- configuration
DEFAULT_CATEGORY == "Unknown"
DEFAULT_DEDUCTIBLE == "False"
ERROR_CATEGORY == "Error"
DEFAULT_JUSTIFICATION == "No justification provided by LLM"
\* The literal "N/A" that row.get falls back to for an absent column.
NA == "N/A"

Variants == {"main", "dev"}

\* ------------------------------------------------------ Python values
EmptyMap == [k \in {} |-> ""]

PyDict(m) == [kind |-> "dict", map |-> m, text |-> <<>>, n |-> 0, err |-> ""]
PyStr(t) == [kind |-> "str", map |-> EmptyMap, text |-> t, n |-> 0, err |-> ""]
PyList(k) == [kind |-> "list", map |-> EmptyMap, text |-> <<>>, n |-> k, err |-> ""]
PyInt(k) == [kind |-> "int", map |-> EmptyMap, text |-> <<>>, n |-> k, err |-> ""]
PyNone == [kind |-> "None", map |-> EmptyMap, text |-> <<>>, n |-> 0, err |-> ""]
\* An exception in flight instead of a value.
Raised(e) == [kind |-> "raise", map |-> EmptyMap, text |-> <<>>, n |-> 0, err |-> e]

\* bool(v) as `if result:` takes it.
Truthy(v) ==
  \/ v.kind = "dict" /\ DOMAIN v.map # {}
  \/ v.kind = "list" /\ v.n > 0
  \/ v.kind = "int" /\ v.n # 0
  \/ v.kind = "str" /\ Len(v.text) > 0

\* dict.get(key, default)
DictGet(m, key, default) == IF key \in DOMAIN m THEN m[key] ELSE default

\* ------------------------------------------------------------- text
Whitespace == {" ", "\n"}
\* The backquote character, which a TLA+ string cannot hold.
Backquote == "<bq>"
Fence == <<Backquote, Backquote, Backquote>>
FenceJson == Fence \o <<"j", "s", "o", "n">>

SetMin(S) == CHOOSE x \in S : \A y \in S : x <= y
SetMax(S) == CHOOSE x \in S : \A y \in S : x >= y

\* str.strip()
Strip(s) ==
  LET keep == {i \in 1..Len(s) : s[i] \notin Whitespace}
  IN IF keep = {} THEN <<>> ELSE SubSeq(s, SetMin(keep), SetMax(keep))

\* str.startswith(p)
StartsWith(s, p) == Len(s) >= Len(p) /\ SubSeq(s, 1, Len(p)) = p

\* s[a:-b] for a, b > 0
Slice(s, a, b) == IF a + 1 <= Len(s) - b THEN SubSeq(s, a + 1, Len(s) - b) ELSE <<>>

\* One character stands for one member of a JSON object: a key with a value.
MemberKey ==
  [c |-> "category", d |-> "is_deductible", f |-> "is_deductible",
   u |-> "justification"]
MemberValue ==
  [c |-> "Travel", d |-> "True", f |-> "False", u |-> "client visit"]
Members == DOMAIN MemberKey

RECURSIVE NoWhitespace(_)
NoWhitespace(s) ==
  IF s = <<>> THEN <<>>
  ELSE IF Head(s) \in Whitespace THEN NoWhitespace(Tail(s))
  ELSE <<Head(s)>> \o NoWhitespace(Tail(s))

\* members separated by commas: m , m , m
IsMemberList(t) ==
  /\ Len(t) % 2 = 1
  /\ \A i \in 1..Len(t) : IF i % 2 = 1 THEN t[i] \in Members ELSE t[i] = ","

\* elements of an array, each the number 1, separated by commas
IsElementList(t) ==
  /\ Len(t) % 2 = 1
  /\ \A i \in 1..Len(t) : IF i % 2 = 1 THEN t[i] = "1" ELSE t[i] = ","

\* The mapping of an object's members; a repeated key keeps its last value.
ObjectOf(t) ==
  LET at == {i \in 1..Len(t) : t[i] \in Members}
      keys == {MemberKey[t[i]] : i \in at}
      last(k) == SetMax({i \in at : MemberKey[t[i]] = k})
  IN [k \in keys |-> MemberValue[t[last(k)]]]

JSONDecodeError == "JSONDecodeError"
TypeError == "TypeError"
AttributeError == "AttributeError"

\* json.loads of a text: an object, an array, a number, or JSONDecodeError.  Whitespace
\* between tokens is insignificant.
JsonLoadsText(s) ==
  LET t == NoWhitespace(s)
      inner == SubSeq(t, 2, Len(t) - 1)
  IN IF Len(t) >= 2 /\ t[1] = "{" /\ t[Len(t)] = "}"
          /\ (inner = <<>> \/ IsMemberList(inner))
       THEN PyDict(ObjectOf(inner))
     ELSE IF Len(t) >= 2 /\ t[1] = "[" /\ t[Len(t)] = "]"
          /\ (inner = <<>> \/ IsElementList(inner))
       THEN PyList((Len(inner) + 1) \div 2)
     ELSE IF t = <<"1">> THEN PyInt(1)
     ELSE Raised(JSONDecodeError)

\* json.loads(x): a value that is not text is a TypeError.
JsonLoads(x) == IF x.kind = "str" THEN JsonLoadsText(x.text) ELSE Raised(TypeError)

\* ------------------------------------------------- the JSON extractor
\* A faulty fence handling, for testing the claims: the json tag is not
\* looked for.
StripCodeFence_untagged(json_string) ==
  IF json_string.kind = "str" /\ StartsWith(Strip(json_string.text), Fence)
  THEN PyStr(Strip(Slice(Strip(json_string.text), 3, 3)))
  ELSE json_string

\* The code-fence handling, the same in both files.
StripCodeFence(json_string) ==
  IF json_string.kind = "str"
  THEN IF StartsWith(Strip(json_string.text), FenceJson)
         THEN PyStr(Strip(Slice(Strip(json_string.text), 7, 3)))
       ELSE IF StartsWith(Strip(json_string.text), Fence)
         THEN PyStr(Strip(Slice(Strip(json_string.text), 3, 3)))
       ELSE json_string
  ELSE json_string

\* llama_expense-dev.py: decoding errors are raised.
direct_json_loads(json_string) ==
  LET s == StripCodeFence(json_string)
  IN IF s.kind = "dict" THEN s ELSE JsonLoads(s)

\* llama_expense.py: JSONDecodeError and every other Exception give None.
safe_json_loads(json_string) ==
  LET s == StripCodeFence(json_string)
      r == IF s.kind = "dict" THEN s ELSE JsonLoads(s)
  IN IF r.kind = "raise" THEN PyNone ELSE r

\* The extractor of a variant.
Extract(v, x) == IF v = "main" THEN safe_json_loads(x) ELSE direct_json_loads(x)

\* ------------------------------------------------------- input rows
AllColumns == {"Product Name", "Unit Price", "Quantity", "Order Date"}

\* The columns a CSV file may have.
ColumnSets ==
  {AllColumns, AllColumns \ {"Order Date"}, AllColumns \ {"Product Name"},
   {"Unit Price", "Quantity"}}

\* Cells as pd.read_csv delivers them: an empty cell, and a cell holding one
\* of pandas' default NA markers such as N/A, is the float NaN.
RowValues ==
  { [ProductName |-> "Adobe Creative Cloud", UnitPrice |-> "59.99",
     Quantity |-> "1", OrderDate |-> "1/15/2024"],
    [ProductName |-> "Client lunch", UnitPrice |-> "85.5",
     Quantity |-> "2", OrderDate |-> "next week"],
    [ProductName |-> "nan", UnitPrice |-> "12.0",
     Quantity |-> "1", OrderDate |-> "nan"] }

FieldOf ==
  [c \in AllColumns |->
     CASE c = "Product Name" -> "ProductName"
       [] c = "Unit Price" -> "UnitPrice"
       [] c = "Quantity" -> "Quantity"
       [] c = "Order Date" -> "OrderDate"]

\* A row of a table with the columns cols.
RowOver(cols, r) == [c \in cols |-> r[FieldOf[c]]]

\* row.get(key, default)
RowGet(row, key, default) == IF key \in DOMAIN row THEN row[key] ELSE default

\* The tables of at most n rows.
Tables(n) ==
  UNION { { [columns |-> cols, rows |-> [i \in 1..k |-> RowOver(cols, f[i])]] :
              f \in [1..k -> RowValues] } :
          cols \in ColumnSets, k \in 0..n }

\* ------------------------------------------------------------ dates
ValueError == "ValueError"

\* A pd.Timestamp cell (read_csv without parse_dates delivers none).
Timestamps == {"Timestamp(2024-03-10)"}
TimestampStrftime == [t \in Timestamps |-> "2024-03-10"]

\* The strings pd.to_datetime parses, with the date formatted by DATE_FORMAT.
ParsedDates == [x \in {"1/15/2024", "2024-01-15"} |-> "2024-01-15"]

DateOk(s) == [raised |-> FALSE, val |-> s, err |-> ""]
DateRaised(e) == [raised |-> TRUE, val |-> "", err |-> e]

\* pd.to_datetime(date_value).strftime(DATE_FORMAT): an unparseable string
\* raises in to_datetime, NaN becomes NaT, whose strftime raises ValueError.
ToDatetimeStrftime(date_value) ==
  IF date_value \in DOMAIN ParsedDates
  THEN DateOk(ParsedDates[date_value])
  ELSE DateRaised(ValueError)

\* A faulty parse_date, for testing the claims: the fallback is the
\* placeholder and not the value's own string.
parse_date_main_placeholder(date_value) ==
  LET r == ToDatetimeStrftime(date_value)
  IN IF r.raised THEN DateOk(NA) ELSE r

\* A faulty parse_date, for testing the claims: no fallback.
parse_date_main_strict(date_value) == ToDatetimeStrftime(date_value)

\* llama_expense.py: falls back to str(date_value).
parse_date_main(date_value) ==
  LET r == IF date_value \in Timestamps
           THEN DateOk(TimestampStrftime[date_value])
           ELSE ToDatetimeStrftime(date_value)
  IN IF r.raised THEN DateOk(date_value) ELSE r

\* llama_expense-dev.py: raises.
parse_date_dev(date_value) ==
  IF date_value \in Timestamps
  THEN DateOk(TimestampStrftime[date_value])
  ELSE ToDatetimeStrftime(date_value)

parse_date(v, date_value) ==
  IF v = "main" THEN parse_date_main(date_value) ELSE parse_date_dev(date_value)

\* ------------------------------------------------ the record classifier
\* How a call of process_single_expense ends: a returned triple, or an
\* exception raised to the caller.
Return(category, is_deductible, justification) ==
  [raised |-> FALSE, triple |-> <<category, is_deductible, justification>>, err |-> ""]
Raise(e) == [raised |-> TRUE, triple |-> <<"", "", "">>, err |-> e]

NoRequest == [product_name |-> "", unit_price |-> "", quantity |-> "", order_date |-> ""]

\* The inputs of processing_chain.invoke.
Request(row, order_date) ==
  [product_name |-> RowGet(row, "Product Name", NA),
   unit_price |-> RowGet(row, "Unit Price", "0.0"),
   quantity |-> RowGet(row, "Quantity", "1"),
   order_date |-> order_date]

\* process_single_expense up to the call of the chain: the fields are read and
\* the date parsed first, then the skip check.
process_single_expense_begin(v, row) ==
  LET product_name == RowGet(row, "Product Name", NA)
      order_date == parse_date(v, RowGet(row, "Order Date", NA))
  IN IF order_date.raised
       THEN [step |-> "raise", outcome |-> Raise(order_date.err), request |-> NoRequest]
     ELSE IF product_name = NA
       THEN [step |-> "return",
             outcome |-> Return(DEFAULT_CATEGORY, DEFAULT_DEDUCTIBLE,
                                "Missing product information"),
             request |-> NoRequest]
     ELSE [step |-> "invoke", outcome |-> Raise(""),
           request |-> Request(row, order_date.val)]

\* Faulty lookups, for testing the claims: a missing is_deductible counts as
\* deductible.
Defaulted_deductible(m) ==
  Return(DictGet(m, "category", DEFAULT_CATEGORY),
         DictGet(m, "is_deductible", "True"),
         DictGet(m, "justification", DEFAULT_JUSTIFICATION))

\* Faulty lookups, for testing the claims: is_deductible is coerced to a bool.
Defaulted_truthy(m) ==
  Return(DictGet(m, "category", DEFAULT_CATEGORY),
         IF "is_deductible" \in DOMAIN m /\ m["is_deductible"] # "False"
         THEN "True" ELSE "False",
         DictGet(m, "justification", DEFAULT_JUSTIFICATION))

\* The three lookups with their defaults.
Defaulted(m) ==
  Return(DictGet(m, "category", DEFAULT_CATEGORY),
         DictGet(m, "is_deductible", DEFAULT_DEDUCTIBLE),
         DictGet(m, "justification", DEFAULT_JUSTIFICATION))

\* A faulty finish, for testing the claims: an answer that cannot be decoded
\* is treated as an empty mapping.
process_single_expense_finish_main_lenient(result_raw) ==
  IF result_raw.kind = "raise"
  THEN Return(ERROR_CATEGORY, DEFAULT_DEDUCTIBLE, "Processing error: " \o result_raw.err)
  ELSE LET result == safe_json_loads(result_raw)
       IN IF result.kind = "dict" THEN Defaulted(result.map) ELSE Defaulted(EmptyMap)

\* llama_expense.py, from the chain's answer on: result_raw is what invoke
\* returned, or the exception it raised.
process_single_expense_finish_main(result_raw) ==
  IF result_raw.kind = "raise"
  THEN Return(ERROR_CATEGORY, DEFAULT_DEDUCTIBLE, "Processing error: " \o result_raw.err)
  ELSE LET result == safe_json_loads(result_raw)
       IN IF Truthy(result)
          THEN IF result.kind = "dict"
               THEN Defaulted(result.map)
               ELSE Return(ERROR_CATEGORY, DEFAULT_DEDUCTIBLE,
                           "Processing error: " \o AttributeError)
          ELSE Return(ERROR_CATEGORY, DEFAULT_DEDUCTIBLE, "LLM response parsing error")

\* llama_expense-dev.py, from the chain's answer on.
process_single_expense_finish_dev(result_raw) ==
  IF result_raw.kind = "raise"
  THEN Raise(result_raw.err)
  ELSE LET result == direct_json_loads(result_raw)
       IN IF result.kind = "raise" THEN Raise(result.err)
          ELSE IF result.kind = "dict" THEN Defaulted(result.map)
          ELSE Raise(AttributeError)

process_single_expense_finish(v, result_raw) ==
  IF v = "main"
  THEN process_single_expense_finish_main(result_raw)
  ELSE process_single_expense_finish_dev(result_raw)

\* What the chain does on one call: no call was made.
NoCall == [kind |-> "nocall", map |-> EmptyMap, text |-> <<>>, n |-> 0, err |-> ""]

\* The whole call, given what the chain does if it is invoked.
process_single_expense(v, row, result_raw) ==
  LET b == process_single_expense_begin(v, row)
  IN IF b.step = "invoke"
     THEN process_single_expense_finish(v, result_raw)
     ELSE b.outcome

\* A faulty loop body, for testing the claims: the handler of
\* llama_expense-dev.py re-raises.
LoopBody_reraise(v, outcome) ==
  [propagates |-> outcome.raised, triple |-> outcome.triple]

\* --------------------------------------------------- the batch runner
\* The loop body of process_expenses around the call: llama_expense.py has no
\* handler, so an exception would leave the loop; llama_expense-dev.py catches
\* Exception and assigns the error values.
LoopBody(v, outcome) ==
  IF ~outcome.raised
  THEN [propagates |-> FALSE, triple |-> outcome.triple]
  ELSE IF v = "main"
  THEN [propagates |-> TRUE, triple |-> outcome.triple]
  ELSE [propagates |-> FALSE,
        triple |-> <<ERROR_CATEGORY, DEFAULT_DEDUCTIBLE,
                     "Error during processing: " \o outcome.err>>]

\* Faulty loops, for testing the claims: one that passes over a row, one that
\* stays on the row it has just finished.
NextRow_skip(i) == i + 2
NextRow_stay(i) == i

\* The row the loop turns to after row number i (rows are numbered from 1).
NextRow(i) == i + 1

\* A faulty loop end, for testing the claims: the statements after the loop
\* are run once one row is finished.
LoopDone_early(i, n) == i >= 1 \/ i = n

\* The for loop is over: every one of the n rows has been iterated.
LoopDone(i, n) == i = n

\* What the inference service may do on a call.
ConnectionError == "ConnectionError"
SampleMaps ==
  { [category |-> "Office Supplies & Software", is_deductible |-> "True",
     justification |-> "software for the business"],
    [category |-> "Business Meals", justification |-> "meal with a client"],
    [category |-> "Travel", is_deductible |-> "yes",
     justification |-> "flight to a client"],
    [is_deductible |-> "True"],
    EmptyMap }
SampleTexts ==
  { <<"{", "c", ",", "d", ",", "u", "}">>,
    <<"n", "o", "t", " ", "j", "s", "o", "n">>,
    FenceJson \o <<"\n", "{", "c", ",", "u", "}", "\n">> \o Fence,
    <<"{", "}">>,
    <<"[", "1", "]">> }
ServiceBehaviours ==
  {Raised(ConnectionError)} \cup {PyDict(m) : m \in SampleMaps}
    \cup {PyStr(t) : t \in SampleTexts} \cup {PyList(1)}

NoFile == [written |-> FALSE, rows |-> <<>>, Category |-> <<>>,
           IsDeductible |-> <<>>, Justification |-> <<>>]

VARIABLES
  variant,          \* which script runs
  prompt,           \* the prompt the chain is built from, or why there is none
  columns, rows,    \* the input file's table
  pc,               \* where the run is
  index,            \* rows the loop has finished
  categories, deductibility, justifications,   \* the three accumulators
  pending,          \* requests sent to the inference service and not answered
  invocations,      \* every request sent, in order, with its row number
  served,           \* per finished row, what the service did (NoCall if not invoked)
  outcomes,         \* per finished row, how process_single_expense ended
  attached,         \* the three columns are attached to df
  saveCalls,        \* calls of save_expense_data
  outfile,          \* the output file
  jsonText, fenceTag, wrappedText, plainRecord, wrappedRecord   \* extractor runs

batchVars ==
  <<columns, rows, index, categories, deductibility, justifications, pending,
    invocations, served, outcomes, attached, saveCalls, outfile>>
extractVars == <<jsonText, fenceTag, wrappedText, plainRecord, wrappedRecord>>
vars == <<variant, prompt, pc, batchVars, extractVars>>

Init ==
  /\ variant \in Variants
  /\ prompt = "template"
  /\ \E t \in Tables(MaxRows) : columns = t.columns /\ rows = t.rows
  /\ pc = "read"
  /\ index = 0
  /\ categories = <<>> /\ deductibility = <<>> /\ justifications = <<>>
  /\ pending = {}
  /\ invocations = <<>>
  /\ served = <<>>
  /\ outcomes = <<>>
  /\ attached = FALSE
  /\ saveCalls = 0
  /\ outfile = NoFile
  /\ jsonText = <<>> /\ fenceTag = "" /\ wrappedText = <<>>
  /\ plainRecord = PyNone /\ wrappedRecord = PyNone

\* read_expense_data: the table, or (a missing or unreadable file) None in
\* llama_expense.py, where process_expenses returns, and an exception in
\* llama_expense-dev.py.
ReadExpenseData ==
  /\ pc = "read"
  /\ \E ok \in BOOLEAN : pc' = IF ok THEN "loop" ELSE "read_failed"
  /\ UNCHANGED <<variant, prompt, batchVars, extractVars>>

\* The loop's bookkeeping once the call for the current row has ended.
EndRow(result_raw, outcome) ==
  LET body == LoopBody(variant, outcome)
  IN /\ served' = Append(served, result_raw)
     /\ outcomes' = Append(outcomes, outcome)
     /\ IF body.propagates
        THEN /\ pc' = "row_crashed"
             /\ UNCHANGED <<index, categories, deductibility, justifications>>
        ELSE /\ pc' = "loop"
             /\ index' = NextRow(index)
             /\ categories' = Append(categories, body.triple[1])
             /\ deductibility' = Append(deductibility, body.triple[2])
             /\ justifications' = Append(justifications, body.triple[3])

\* The loop takes the next row and calls process_single_expense, which either
\* ends without the service or sends the request and blocks.
BeginRow ==
  /\ pc = "loop"
  /\ index < Len(rows)
  /\ LET b == process_single_expense_begin(variant, rows[index + 1])
     IN IF b.step = "invoke"
        THEN /\ pending' = pending \cup {[row |-> index + 1, request |-> b.request]}
             /\ invocations' = Append(invocations, [row |-> index + 1, request |-> b.request])
             /\ pc' = "invoke"
             /\ UNCHANGED <<index, categories, deductibility, justifications,
                            served, outcomes>>
        ELSE /\ EndRow(NoCall, b.outcome)
             /\ UNCHANGED <<pending, invocations>>
  /\ UNCHANGED <<variant, prompt, columns, rows, attached, saveCalls, outfile, extractVars>>

\* The service answers (or fails) and process_single_expense runs to its end.
ServiceResponds ==
  /\ pc = "invoke"
  /\ \E result_raw \in ServiceBehaviours :
       /\ pending' = {}
       /\ EndRow(result_raw, process_single_expense_finish(variant, result_raw))
  /\ UNCHANGED <<variant, prompt, columns, rows, invocations, attached, saveCalls, outfile,
                 extractVars>>

\* After the loop: the accumulators become columns (pandas raises if a column's
\* length differs from the table's) and save_expense_data writes the file;
\* a failed write is reported in llama_expense.py and raised in
\* llama_expense-dev.py.
AttachAndSave ==
  /\ pc = "loop"
  /\ LoopDone(index, Len(rows))
  /\ IF Len(categories) = Len(rows) /\ Len(deductibility) = Len(rows)
        /\ Len(justifications) = Len(rows)
     THEN /\ attached' = TRUE
          /\ saveCalls' = saveCalls + 1
          /\ \E ok \in BOOLEAN :
               IF ok
               THEN /\ outfile' = [written |-> TRUE, rows |-> rows,
                                   Category |-> categories,
                                   IsDeductible |-> deductibility,
                                   Justification |-> justifications]
                    /\ pc' = "done"
               ELSE /\ outfile' = outfile
                    /\ pc' = IF variant = "main" THEN "done" ELSE "save_crashed"
     ELSE /\ pc' = "attach_crashed"
          /\ UNCHANGED <<attached, saveCalls, outfile>>
  /\ UNCHANGED <<variant, prompt, columns, rows, index, categories, deductibility,
                 justifications, pending, invocations, served, outcomes, extractVars>>

Next == ReadExpenseData \/ BeginRow \/ ServiceResponds \/ AttachAndSave

Spec == Init /\ [][Next]_vars

\* ------------------------------------------------------------ main()
\* What load_prompt does with prompt.yaml: FileNotFoundError, another
\* exception, or a prompt template object, whose template text may be empty.
PromptLoads == {"missing", "unloadable", "empty_template", "template"}

\* `not prompt`: a prompt template object defines neither __bool__ nor
\* __len__, so it is true whatever its template text; None would be false.
NotPrompt(p) == p = "None"

\* main() starts: the table is in the input file, nothing is loaded.
InitMain ==
  /\ variant \in Variants
  /\ prompt = "unloaded"
  /\ \E t \in Tables(MaxRows) : columns = t.columns /\ rows = t.rows
  /\ pc = "main"
  /\ index = 0
  /\ categories = <<>> /\ deductibility = <<>> /\ justifications = <<>>
  /\ pending = {}
  /\ invocations = <<>>
  /\ served = <<>>
  /\ outcomes = <<>>
  /\ attached = FALSE
  /\ saveCalls = 0
  /\ outfile = NoFile
  /\ jsonText = <<>> /\ fenceTag = "" /\ wrappedText = <<>>
  /\ plainRecord = PyNone /\ wrappedRecord = PyNone

\* llama_expense-dev.py: load_prompt_from_file; both except clauses exit(1).
LoadPromptFromFile ==
  /\ pc = "main" /\ variant = "dev"
  /\ \E loaded \in PromptLoads :
       /\ prompt' = loaded
       /\ pc' = IF loaded \in {"missing", "unloadable"} THEN "exited" ELSE "init_llm"
  /\ UNCHANGED <<variant, batchVars, extractVars>>

\* llama_expense.py: the prompt is the module's EXPENSE_CATEGORIZATION_PROMPT;
\* import_llm_module exits if neither package can be imported.
ImportLlmModule ==
  /\ pc = "main" /\ variant = "main"
  /\ prompt' = "template"
  /\ \E ok \in BOOLEAN : pc' = IF ok THEN "init_llm" ELSE "exited"
  /\ UNCHANGED <<variant, batchVars, extractVars>>

\* initialize_llm: llama_expense.py exits on an exception, llama_expense-dev.py
\* lets it through.
InitializeLlm ==
  /\ pc = "init_llm"
  /\ \E ok \in BOOLEAN :
       pc' = IF ok THEN "create_chain"
             ELSE IF variant = "main" THEN "exited" ELSE "startup_crashed"
  /\ UNCHANGED <<variant, prompt, batchVars, extractVars>>

\* create_processing_chain (llama_expense-dev.py exits if `not prompt`), and
\* main() goes on to process_expenses.
CreateProcessingChain ==
  /\ pc = "create_chain"
  /\ pc' = IF variant = "dev" /\ NotPrompt(prompt) THEN "exited" ELSE "read"
  /\ UNCHANGED <<variant, prompt, batchVars, extractVars>>

NextMain ==
  \/ LoadPromptFromFile \/ ImportLlmModule \/ InitializeLlm \/ CreateProcessingChain
  \/ Next

SpecMain == InitMain /\ [][NextMain]_vars

\* ------------------------------------------- the extractor on fenced text
\* The texts of the JSON objects with at most n members.
ObjectText(ms) ==
  <<"{">> \o [i \in 1..(2 * Len(ms) - 1) |-> IF i % 2 = 1 THEN ms[(i + 1) \div 2] ELSE ","]
    \o <<"}">>
JsonObjectTexts(n) ==
  {ObjectText(ms) : ms \in UNION {[1..k -> Members] : k \in 0..n}}

\* Runs of at most n whitespace characters.
Pads(n) == UNION {[1..k -> Whitespace] : k \in 0..n}

\* The tag after the opening fence: json, none (an unlabeled block), or
\* another language's.
TagJson == <<"j", "s", "o", "n">>
TagNone == <<>>
TagOther == <<"j", "s">>
FenceTags == {TagJson, TagNone, TagOther}

\* J in a code fence: opening fence, tag, J, closing fence, with whitespace
\* around the block and between the fences and J.
Fenced(J, tag, lead, sep, trail) ==
  lead \o Fence \o tag \o sep \o J \o sep \o Fence \o trail

InitExtract ==
  /\ variant \in Variants
  /\ prompt = "template"
  /\ pc = "extract"
  /\ columns = {} /\ rows = <<>>
  /\ index = 0
  /\ categories = <<>> /\ deductibility = <<>> /\ justifications = <<>>
  /\ pending = {}
  /\ invocations = <<>>
  /\ served = <<>>
  /\ outcomes = <<>>
  /\ attached = FALSE
  /\ saveCalls = 0
  /\ outfile = NoFile
  /\ jsonText \in JsonObjectTexts(MaxMembers)
  /\ fenceTag \in FenceTags
  /\ \E lead \in Pads(MaxPad), trail \in Pads(MaxPad), sep \in {<<>>, <<"\n">>} :
       wrappedText = Fenced(jsonText, fenceTag, lead, sep, trail)
  /\ plainRecord = PyNone /\ wrappedRecord = PyNone

\* The variant's extractor is applied to the bare text and to the fenced text.
ExtractBoth ==
  /\ pc = "extract"
  /\ plainRecord' = Extract(variant, PyStr(jsonText))
  /\ wrappedRecord' = Extract(variant, PyStr(wrappedText))
  /\ pc' = "extracted"
  /\ UNCHANGED <<variant, prompt, batchVars, jsonText, fenceTag, wrappedText>>

NextExtract == ExtractBoth

SpecExtract == InitExtract /\ [][NextExtract]_vars

\* =============================================================== claims
\* Row i's entries in the three accumulators.
Entry(i) == <<categories[i], deductibility[i], justifications[i]>>

\* The triple the loop body yields for row i, given what the service did on
\* the call for row i.
ExpectedTriple(i) ==
  LoopBody(variant, process_single_expense(variant, rows[i], served[i])).triple

\* The call for row i was made and failed: invoke raised, or the answer could
\* not be decoded.
InvocationFailed(i) == served[i].kind = "raise"
ExtractionFailed(i) ==
  /\ served[i].kind \notin {"raise", "nocall"}
  /\ direct_json_loads(served[i]).kind = "raise"

\* C1: a completed run attaches three columns that hold exactly one entry per
\* input row, entry i being the result computed for input row i, whatever the
\* table (the empty one too) and whatever the service did on each row; the
\* attachment itself never fails on a length mismatch.
C1_OneResultPerRow ==
  /\ pc # "attach_crashed"
  /\ attached =>
       /\ Len(categories) = Len(rows)
       /\ Len(deductibility) = Len(rows)
       /\ Len(justifications) = Len(rows)
       /\ \A i \in 1..Len(rows) : Entry(i) = ExpectedTriple(i)
  /\ outfile.written =>
       /\ outfile.rows = rows
       /\ outfile.Category = categories
       /\ outfile.IsDeductible = deductibility
       /\ outfile.Justification = justifications

\* A completed two-row run whose first call raised and whose second call
\* returned a mapping.
C1_Witness ==
  /\ attached /\ outfile.written
  /\ Len(rows) = 2
  /\ served[1].kind = "raise" /\ served[2].kind = "dict"
  /\ categories[1] = ERROR_CATEGORY /\ categories[2] = "Business Meals"

\* C2: a failure of the invocation or of the extraction on row k never stops
\* the loop: the run is never left through the row, it can always take its
\* next step, row k and every other finished row keep their own results, and
\* the run ends only with every row processed and save_expense_data called.
C2_FailureDoesNotStopLoop ==
  \A k \in 1..Len(served) :
    (InvocationFailed(k) \/ ExtractionFailed(k)) =>
      /\ pc \in {"loop", "invoke", "done", "save_crashed"}
      /\ pc \in {"loop", "invoke"} => ENABLED Next
      /\ index >= k /\ Len(categories) = index
      /\ \A i \in 1..index : i # k => Entry(i) = ExpectedTriple(i)
      /\ pc \in {"done", "save_crashed"} =>
           index = Len(rows) /\ attached /\ saveCalls = 1

\* The first row's call failed, the second row's succeeded, and the table
\* was saved.
C2_Witness ==
  /\ pc = "done" /\ outfile.written
  /\ Len(rows) = 2
  /\ ExtractionFailed(1)
  /\ categories = <<ERROR_CATEGORY, "Office Supplies & Software">>

\* C3: a row whose product name is the placeholder N/A (a row without a
\* Product Name field) yields ("Unknown", False, "Missing product
\* information") whatever its other fields hold, and the service is not
\* invoked for it.
C3_SkipYieldsDefaults ==
  \A i \in 1..Len(outcomes) :
    RowGet(rows[i], "Product Name", NA) = NA =>
      /\ served[i] = NoCall
      /\ ~outcomes[i].raised
      /\ outcomes[i].triple =
           <<DEFAULT_CATEGORY, DEFAULT_DEDUCTIBLE, "Missing product information">>
      /\ i <= Len(categories) => Entry(i) = outcomes[i].triple

\* The justifications that describe a processing or parsing failure.
Errors == {ConnectionError, JSONDecodeError, TypeError, AttributeError, ValueError}
FailureJustifications(v) ==
  IF v = "main"
  THEN {"LLM response parsing error"} \cup {"Processing error: " \o e : e \in Errors}
  ELSE {"Error during processing: " \o e : e \in Errors}

\* C4: for a row that was not skipped, a failed invocation or a failed
\* extraction becomes the row result ("Error", False, a justification that
\* describes the failure), in that row of the accumulators and of the file.
C4_FailureBecomesErrorRow ==
  \A i \in 1..Len(categories) :
    (InvocationFailed(i) \/ ExtractionFailed(i)) =>
      /\ categories[i] = "Error"
      /\ deductibility[i] = "False"
      /\ justifications[i] \in FailureJustifications(variant)
      /\ outfile.written => outfile.Category[i] = "Error"

\* The answer "not json" to a row's call, visible as Error in the file.
C4_Witness ==
  /\ outfile.written
  /\ \E i \in 1..Len(rows) :
       /\ served[i] = PyStr(<<"n", "o", "t", " ", "j", "s", "o", "n">>)
       /\ outfile.Category[i] = "Error"
       /\ outfile.Justification[i] \in
            {"LLM response parsing error", "Error during processing: JSONDecodeError"}

\* C5 as claimed: in both scripts no call of process_single_expense ever
\* raises to its caller.
C5_NeverRaises == \A i \in 1..Len(outcomes) : ~outcomes[i].raised

\* C5, amended: in llama_expense.py no call of process_single_expense raises
\* to its caller, every call returning one triple; in llama_expense-dev.py a
\* call may raise, and the loop of process_expenses is the isolation boundary:
\* it catches the exception and gives the row ("Error", False, "Error during
\* processing: <error>").
C5_IsolationBoundary ==
  /\ pc # "row_crashed"
  /\ \A i \in 1..Len(outcomes) :
       /\ variant = "main" => ~outcomes[i].raised
       /\ outcomes[i].raised =>
            Entry(i) = <<"Error", "False", "Error during processing: " \o outcomes[i].err>>
       /\ ~outcomes[i].raised => Entry(i) = outcomes[i].triple

\* llama_expense.py was given an unparseable date, a failing service and a
\* list for an answer, and returned a triple each time.
C5_Witness ==
  /\ variant = "main"
  /\ Len(outcomes) = 2
  /\ RowGet(rows[2], "Order Date", NA) = "next week"
  /\ served[1].kind = "raise" /\ served[2].kind = "list"
  /\ ~outcomes[1].raised /\ ~outcomes[2].raised

\* The mapping a response decodes to, when it decodes to one.
DecodesToMapping(x) ==
  x.kind \notin {"raise", "nocall"} /\ direct_json_loads(x).kind = "dict"
MappingOf(x) == IF x.kind = "dict" THEN x.map ELSE direct_json_loads(x).map

\* C6: for a row that was not skipped and whose response decodes to a mapping
\* with category and justification, the row's category and justification are
\* the response's values, and is_deductible is the response's value when the
\* key is present (whatever its type) and False when it is missing; a response
\* that already is a mapping comes out of the extractor unchanged.
C6_ValuesPassThrough ==
  \A i \in 1..Len(categories) :
    (DecodesToMapping(served[i])
       /\ {"category", "justification"} \subseteq DOMAIN MappingOf(served[i])) =>
      LET m == MappingOf(served[i])
      IN /\ categories[i] = m["category"]
         /\ justifications[i] = m["justification"]
         /\ deductibility[i] =
              IF "is_deductible" \in DOMAIN m THEN m["is_deductible"] ELSE "False"
         /\ served[i].kind = "dict" => Extract(variant, served[i]) = served[i]

\* One row's mapping lacked is_deductible, another's held the str "yes" there.
C6_Witness ==
  /\ Len(categories) = 2
  /\ served[1].kind = "dict" /\ DOMAIN served[1].map = {"category", "justification"}
  /\ deductibility[1] = "False"
  /\ served[2].kind = "dict" /\ deductibility[2] = "yes"
  /\ categories[2] = "Travel"

\* C7: a response that decodes to an object lacking any of the three keys
\* (the empty object too) is no extraction failure: each field is defaulted
\* exactly when its own key is missing, and the row's category is not "Error".
C7_MissingKeysDefaulted ==
  \A i \in 1..Len(categories) :
    DecodesToMapping(served[i]) =>
      LET m == MappingOf(served[i])
      IN /\ categories[i] = DictGet(m, "category", "Unknown")
         /\ deductibility[i] = DictGet(m, "is_deductible", "False")
         /\ justifications[i] =
              DictGet(m, "justification", "No justification provided by LLM")
         /\ categories[i] # "Error"

\* C8 as claimed: whatever the language tag, the fenced text yields the
\* record of the bare text.
C8_AnyFenceSameRecord == pc = "extracted" => wrappedRecord = plainRecord

\* C8, amended: for every JSON object text J, J in a code fence labeled with
\* the tag json, or in an unlabeled code fence, with any whitespace around the
\* block and around J, yields the same record as J alone.
C8_JsonFenceSameRecord ==
  (pc = "extracted" /\ fenceTag \in {TagJson, TagNone}) =>
    /\ wrappedRecord = plainRecord
    /\ plainRecord.kind = "dict"

\* A two-member object in a json-labeled fence with whitespace before and
\* after the block.
C8_Witness ==
  /\ pc = "extracted"
  /\ fenceTag = TagJson
  /\ Len(jsonText) = 5
  /\ Len(wrappedText) >= Len(jsonText) + 12
  /\ wrappedRecord = plainRecord
  /\ DOMAIN plainRecord.map = {"category", "is_deductible"}

\* C9: in llama_expense-dev.py, whose process_expenses is documented to halt
\* on the first error, an error raised while row k is processed aborts the
\* batch: no row after k is processed and no output file is written.
C9_HaltOnFirstError ==
  variant = "dev" =>
    \A k \in 1..Len(outcomes) :
      outcomes[k].raised =>
        /\ Len(outcomes) = k
        /\ index < k
        /\ pc \notin {"loop", "invoke", "done"}
        /\ saveCalls = 0 /\ ~outfile.written

\* C10: each row is attempted once and never retried: the service is invoked
\* at most once per row, in input row order, with that row's fields, and a
\* request is outstanding only while the loop is blocked on that row, so no
\* two requests overlap and nothing is done for row i+1 before the call for
\* row i has ended.
C10_OneSequentialAttempt ==
  /\ Cardinality(pending) <= 1
  /\ pending # {} <=> pc = "invoke"
  /\ \A p \in pending :
       p.row = index + 1 /\ p = invocations[Len(invocations)]
  /\ \A a \in 1..Len(invocations) :
       /\ invocations[a].row \in 1..Len(rows)
       /\ invocations[a].row <= index + 1
       /\ invocations[a].request.unit_price = rows[invocations[a].row]["Unit Price"]
       /\ \A b \in 1..Len(invocations) :
            a < b => invocations[a].row < invocations[b].row
  /\ pc # "row_crashed" => Len(outcomes) = index /\ Len(served) = index
  /\ \A i \in 1..Len(served) :
       served[i] # NoCall <=> \E a \in 1..Len(invocations) : invocations[a].row = i

\* The first call failed, the second row's request is outstanding, and there
\* has been one call per row.
C10_Witness ==
  /\ pc = "invoke"
  /\ index = 1
  /\ served[1].kind = "raise"
  /\ Len(invocations) = 2
  /\ pending = {invocations[2]}

\* C11: the output table is persisted at most once per run and only after
\* every input row has its result in the three accumulators: the statements
\* after the loop (columns, save) are reached with no row unprocessed and no
\* request outstanding, and a run whose input could not be read has made no
\* inference call and written nothing.
C11_SavedOnceAfterAllRows ==
  /\ saveCalls <= 1
  /\ outfile.written => saveCalls = 1
  /\ (saveCalls > 0 \/ attached \/ pc \in {"done", "save_crashed", "attach_crashed"}) =>
       /\ index = Len(rows)
       /\ Len(categories) = Len(rows)
       /\ Len(deductibility) = Len(rows)
       /\ Len(justifications) = Len(rows)
       /\ Len(served) = Len(rows)
       /\ pending = {}
  /\ pc \in {"read", "loop", "invoke"} => saveCalls = 0 /\ ~attached /\ ~outfile.written
  /\ pc = "read_failed" =>
       /\ invocations = <<>> /\ served = <<>> /\ index = 0
       /\ saveCalls = 0 /\ ~attached /\ ~outfile.written

\* A two-row table written by the one call of save_expense_data, after two
\* inference calls.
C11_Witness ==
  /\ pc = "done" /\ saveCalls = 1 /\ outfile.written
  /\ Len(rows) = 2 /\ Len(invocations) = 2
  /\ Len(outfile.Category) = 2

\* The input has been read, or the read attempted.
InputTouched ==
  pc \in {"loop", "invoke", "done", "save_crashed", "read_failed", "row_crashed",
          "attach_crashed"}

\* C12: in llama_expense-dev.py a prompt template file that is missing or
\* cannot be loaded, or a loaded prompt that is empty, ends the run before the
\* input is read: no row is processed, no inference call is made and no
\* output file is written.
C12_ConfigurationFailureIsFatal ==
  (variant = "dev" /\ prompt \in {"missing", "unloadable", "empty_template"}) =>
    /\ ~InputTouched
    /\ index = 0 /\ invocations = <<>> /\ served = <<>>
    /\ saveCalls = 0 /\ ~outfile.written

\* The string llama_expense.py sends for an order date: the date in
\* YYYY-MM-DD when the value parses, the value's own string when it does not.
SentDate(raw) ==
  CASE raw \in {"1/15/2024", "2024-01-15"} -> "2024-01-15"
    [] OTHER -> raw

\* C13: in llama_expense.py a date that cannot be parsed is absorbed by
\* parse_date, which falls back to the value's own string: whatever the order
\* date, the row reaches the skip check and, unless skipped, the inference
\* call carrying that string; the date alone neither gives the row the
\* "Error" category nor stops the batch.
C13_DateFailureAbsorbed ==
  variant = "main" =>
    /\ pc # "row_crashed"
    /\ \A i \in 1..Len(outcomes) : ~outcomes[i].raised
    /\ \A i \in 1..Len(served) :
         served[i] = NoCall <=> RowGet(rows[i], "Product Name", NA) = NA
    /\ \A a \in 1..Len(invocations) :
         invocations[a].request.order_date =
           SentDate(RowGet(rows[invocations[a].row], "Order Date", NA))
    /\ \A i \in 1..Len(categories) :
         (served[i].kind = "dict" /\ "category" \in DOMAIN served[i].map) =>
           categories[i] = served[i].map["category"]

\* The row dated "next week" was sent with that string and categorized by
\* the service, and the run went on to save.
C13_Witness ==
  /\ variant = "main" /\ pc = "done"
  /\ \E a \in 1..Len(invocations) :
       /\ invocations[a].request.order_date = "next week"
       /\ categories[invocations[a].row] = "Office Supplies & Software"

\* C14: an entry of the Is Deductible accumulator differs from False only if
\* the service was invoked for the row, answered without error, and the
\* mapping decoded from the answer holds an is_deductible key with that
\* value; a skipped row and a row that ended in an error have False.
C14_FailSafeDeductibility ==
  \A i \in 1..Len(deductibility) :
    /\ deductibility[i] # "False" =>
         /\ served[i].kind \notin {"nocall", "raise"}
         /\ ~outcomes[i].raised
         /\ DecodesToMapping(served[i])
         /\ "is_deductible" \in DOMAIN MappingOf(served[i])
         /\ MappingOf(served[i])["is_deductible"] = deductibility[i]
    /\ (served[i] = NoCall \/ InvocationFailed(i) \/ ExtractionFailed(i)
          \/ ~DecodesToMapping(served[i]) \/ outcomes[i].raised
          \/ (variant = "main" /\ MappingOf(served[i]) = EmptyMap)) =>
         deductibility[i] = "False"

\* A failed call and a deductible answer given as text, side by side: False for the failure, True from the mapping.
C14_Witness ==
  /\ Len(deductibility) = 2
  /\ InvocationFailed(1) /\ deductibility[1] = "False"
  /\ served[2].kind = "str" /\ deductibility[2] = "True"

====
